---- MODULE Spec2Model ----
(***************************************************************************)
(* Resolution pipeline of the financial discrepancy agent:                 *)
(*   LLMClassifier.classify_comment      (resolution_handler/llm_classifier.py)   *)
(*   ResolutionActions.handle_resolution (resolution_handler/resolution_actions.py) *)
(*   ResolutionActions.identify_patterns (resolution_handler/resolution_actions.py) *)
(*   CloudStorage.upload_file            (file_handling/cloud_storage.py)  *)
(*   handle_resolution, purge            (main.py)                         *)
(*                                                                         *)
(* Text is a sequence of characters, each character a one-element token.   *)
(* "LF" is the newline, "LONGS" is U+017F (LATIN SMALL LETTER LONG S).     *)
(***************************************************************************)
EXTENDS Integers, Sequences, FiniteSets, TLC

VARIABLES
    cls,          \* the frame of the classify_comment call in flight
    disp,         \* the frame of the ResolutionActions.handle_resolution call in flight
    scratch,      \* local_temp_dir: file name -> content
    store,        \* the bucket: blob name -> content
    uploads,      \* the upload_file calls made so far, in order
    progress,     \* the fractions handed to the progress callable, in order
    orch,         \* the frame of main.handle_resolution
    comments_df,  \* the comments table handed to main.handle_resolution
    num_clusters, \* config.num_clusters
    audit,        \* history, not program state: per record what the run did with
                  \* it; per stand-alone call what the call found
    ingest        \* the SFTPIngestor (its sftp and transport fields) and the
                  \* ingest_data and fetch_data calls made so far, in order

vars == <<cls, disp, scratch, store, uploads, progress, orch, comments_df,
          num_clusters, audit, ingest>>

-----------------------------------------------------------------------------
(* Bounds of the model *)

MaxRetries == 3
MaxRecords == 2
MaxClusters == 2
MaxCalls == 2
MaxRows == 3

(* Program constants *)

DefaultMaxRetries == 3

-----------------------------------------------------------------------------
(* Text *)

None == <<"<None>">>

Resolved == <<"R", "e", "s", "o", "l", "v", "e", "d">>
Unresolved == <<"U", "n", "r", "e", "s", "o", "l", "v", "e", "d">>

\* str.lower() of one character
Lower(c) ==
    CASE c = "R" -> "r" [] c = "E" -> "e" [] c = "S" -> "s" [] c = "O" -> "o"
      [] c = "L" -> "l" [] c = "V" -> "v" [] c = "D" -> "d" [] c = "U" -> "u"
      [] c = "N" -> "n" [] c = "M" -> "m" [] c = "C" -> "c" [] c = "X" -> "x"
      [] OTHER -> c

\* str.upper() of one character; the long s upper-cases to S
Upper(c) ==
    CASE c = "r" -> "R" [] c = "e" -> "E" [] c = "s" -> "S" [] c = "o" -> "O"
      [] c = "l" -> "L" [] c = "v" -> "V" [] c = "d" -> "D" [] c = "u" -> "U"
      [] c = "n" -> "N" [] c = "m" -> "M" [] c = "c" -> "C" [] c = "x" -> "X"
      [] c = "LONGS" -> "S"
      [] OTHER -> c

Whitespace == {" ", "LF"}

RECURSIVE LStrip(_)
LStrip(s) ==
    IF s # <<>> /\ Head(s) \in Whitespace THEN LStrip(Tail(s)) ELSE s

RECURSIVE RStrip(_)
RStrip(s) ==
    IF s # <<>> /\ s[Len(s)] \in Whitespace
    THEN RStrip(SubSeq(s, 1, Len(s) - 1))
    ELSE s

\* str.strip()
Strip(s) == RStrip(LStrip(s))

\* The characters a literal of the pattern matches under re.IGNORECASE: the
\* characters whose lower case is the literal's, and for s also the long s.
IgnoreCaseSet(p) ==
    IF Lower(p) = "s" THEN {"s", "LONGS"} ELSE {Lower(p)}

\* faulty variant: the match without re.IGNORECASE
CaseSensitiveEq(p, c) == p = c

IgnoreCaseEq(p, c) == Lower(c) \in IgnoreCaseSet(p)

\* ^word$ at the start of s: $ matches at the end and before a final newline
MatchWord(word, s) ==
    /\ Len(s) >= Len(word)
    /\ \A i \in 1..Len(word) : IgnoreCaseEq(word[i], s[i])
    /\ SubSeq(s, Len(word) + 1, Len(s)) \in {<<>>, <<"LF">>}

\* re.match(r"^(Resolved|Unresolved)$", classification, re.IGNORECASE)
ReMatch(classification) ==
    MatchWord(Resolved, classification) \/ MatchWord(Unresolved, classification)

\* faulty variant: only the first character is changed
CapitalizeKeepsTail(s) ==
    IF s = <<>> THEN s ELSE <<Upper(Head(s))>> \o Tail(s)

\* str.capitalize(): the first character upper-cased, the others lower-cased
Capitalize(s) ==
    IF s = <<>> THEN s
    ELSE <<Upper(Head(s))>> \o [i \in 1..(Len(s) - 1) |-> Lower(s[i + 1])]

\* Python truthiness of a value that is None or a string
Truthy(x) == x # None /\ x # <<>>

-----------------------------------------------------------------------------
(* What the text completion service can do on one call *)

RECURSIVE Casings(_)
Casings(w) ==
    IF w = <<>> THEN {<<>>}
    ELSE {<<c>> \o t : c \in {Lower(Head(w)), Upper(Head(w))}, t \in Casings(Tail(w))}

Reply(text) == [kind |-> "reply", content |-> text]
Raises(exc) == [kind |-> exc, content |-> None]

\* every casing of the two labels
LabelTexts == Casings(Resolved) \cup Casings(Unresolved)

PaddedTexts ==
    { <<" ">> \o Resolved \o <<" ">>,
      <<"LF">> \o <<"u", "N", "r", "E", "s", "O", "l", "V", "e", "D">> \o <<"LF">> }

LongSTexts ==
    { <<"R", "e", "LONGS", "o", "l", "v", "e", "d">>,
      <<"u", "n", "r", "e", "LONGS", "o", "l", "v", "e", "d">> }

InvalidTexts ==
    { <<>>,
      <<"M", "a", "y", "b", "e">>,
      Resolved \o <<".">>,
      <<"R", "e", "s", "o", "l", "v", "e">>,
      <<"R", "e", " ", "s", "o", "l", "v", "e", "d">>,
      Resolved \o <<"LF">> \o Unresolved }

Errors == {"RateLimitError", "APIError", "Exception"}

\* the replies and failures of a stand-alone classify_comment call
AllOutcomes ==
    {Reply(t) : t \in LabelTexts \cup PaddedTexts \cup LongSTexts \cup InvalidTexts}
        \cup {Reply(None)} \cup {Raises(e) : e \in Errors}

\* the replies and failures of the calls of an orchestrator run
RunOutcomes ==
    { Reply(<<"R", "E", "S", "O", "L", "V", "E", "D">>),
      Reply(<<" ">> \o <<"u", "n", "r", "e", "s", "o", "l", "v", "e", "d">> \o <<"LF">>),
      Reply(<<"R", "e", "LONGS", "o", "l", "v", "e", "d">>),
      Reply(<<"M", "a", "y", "b", "e">>),
      Raises("Exception") }

-----------------------------------------------------------------------------
(* LLMClassifier.classify_comment *)

IdleCls ==
    [pc |-> "idle", max_retries |-> 0,
     attempt |-> 0, calls |-> 0, waits |-> 0, history |-> <<>>,
     reply |-> None, result |-> None, failed_log |-> FALSE]

\* the frame at entry: for attempt in range(max_retries)
\* (order_id and comment only fill the prompt; the service's answer is free)
EnterClassify(max_retries) ==
    [IdleCls EXCEPT !.pc = "running", !.max_retries = max_retries]

Note(f, kind) == [f EXCEPT !.history = Append(@, kind)]
Sleep(f) == [f EXCEPT !.waits = @ + 1]
Continue(f) == [f EXCEPT !.attempt = @ + 1]
Return(f, v) == [f EXCEPT !.pc = "returned", !.result = v]

\* faulty variant: the delay is taken on the last attempt too
ExceptionAlwaysSleeps(f) ==
    IF f.attempt < f.max_retries - 1
    THEN Continue(Sleep(Note(f, "other")))
    ELSE Return(Sleep(Note(f, "other")), None)

\* except Exception: sleep and go on unless this was the last attempt
OnException(f) ==
    IF f.attempt < f.max_retries - 1
    THEN Continue(Sleep(Note(f, "other")))
    ELSE Return(Note(f, "other"), None)

\* faulty variant: no delay after the last attempt
RateLimitGivesUp(f) ==
    IF f.attempt < f.max_retries - 1
    THEN Continue(Sleep(Note(f, "rate_limit")))
    ELSE Continue(Note(f, "rate_limit"))

\* except RateLimitError: sleep, next attempt
OnRateLimit(f) == Continue(Sleep(Note(f, "rate_limit")))

\* except (APIConnectionError, APIError): sleep, next attempt
OnApiError(f) == Continue(Sleep(Note(f, "api_error")))

\* faulty variant: an invalid reply ends the call
InvalidGivesUp(f) == Return(Note(f, "invalid"), None)

\* else: logging.warning("Invalid LLM response ... Retrying...")
OnInvalid(f) == Continue(Note(f, "invalid"))

\* the try body once the completion call has returned; a reply without
\* content makes .strip() raise AttributeError, which except Exception takes
OnReply(f, content) ==
    IF content = None
    THEN OnException(f)
    ELSE LET classification == Strip(content)
         IN  IF ReMatch(classification)
             THEN Return(Note(f, "valid"), Capitalize(classification))
             ELSE OnInvalid(f)

\* one pass of the for loop: the completion call and what follows it
Attempt(f, o) ==
    LET g == [f EXCEPT !.calls = @ + 1, !.reply = o.content]
    IN  CASE o.kind = "reply" -> OnReply(g, o.content)
          [] o.kind = "RateLimitError" -> OnRateLimit(g)
          [] o.kind = "APIError" -> OnApiError(g)
          [] OTHER -> OnException(g)

\* for attempt in range(max_retries)
InLoop(f) == f.pc = "running" /\ f.attempt < f.max_retries

\* pool: what the service may do on this call
ClassifyAttempt(pool) ==
    /\ InLoop(cls)
    /\ \E o \in pool : cls' = Attempt(cls, o)
    /\ UNCHANGED <<disp, scratch, store, uploads, progress, orch, comments_df,
                   num_clusters, audit, ingest>>

\* after the loop: logging.error("Failed to classify ..."), return None
ClassifyExhausted ==
    /\ cls.pc = "running"
    /\ ~InLoop(cls)
    /\ cls' = Return([cls EXCEPT !.failed_log = TRUE], None)
    /\ UNCHANGED <<disp, scratch, store, uploads, progress, orch, comments_df,
                   num_clusters, audit, ingest>>


-----------------------------------------------------------------------------
(* Files, blobs and CloudStorage.upload_file *)

OrderIds == {"o1", "o2"}
Comments == {"c1", "c2"}
NaN == "NaN"

local_temp_dir == "temp"
gcs_resolved_folder == "processed/resolved"
gcs_unresolved_folder == "processed/unresolved"

\* f"{value}" of a cell of the table
Str(x) == IF x = NaN THEN "nan" ELSE x

\* f"{order_id}_resolved.txt", f"{order_id}_unresolved.txt"
FileName(order_id, suffix) == <<Str(order_id), suffix>>

\* os.path.join
Join(dir, name) == <<dir, name>>

EmptyDir == [p \in {} |-> <<>>]

\* what preprocess_data leaves in local_temp_dir
CategorizedCsv == Join(local_temp_dir, <<"temp_categorized_data", ".csv">>)
InitialScratch == (CategorizedCsv :> <<"csv">>)

\* faulty variant: the content is added to what the file holds
WriteFileAppends(fs, path, content) ==
    (path :> ((IF path \in DOMAIN fs THEN fs[path] ELSE <<>>) \o content)) @@ fs

WriteFile(fs, path, content) == (path :> content) @@ fs

\* what the storage client can do on an upload: go through, or raise
ClientFaults == {"none", "GoogleAPIError", "ConnectionError"}

\* blob.upload_from_filename(local_file_path): the exception it raises, "none"
\* when it goes through; a missing local file is FileNotFoundError
UploadFromFilename(fs, local_file_path, fault) ==
    IF local_file_path \notin DOMAIN fs THEN "FileNotFoundError" ELSE fault

\* faulty variant: only the first except clause
CaughtNotFoundOnly(exc) == exc = "FileNotFoundError"

\* except FileNotFoundError: ... except Exception as e: ...
Caught(exc) == exc = "FileNotFoundError" \/ exc \in {"GoogleAPIError", "ConnectionError"}

\* CloudStorage.upload_file: True and the blob written, or the exception logged
\* and False; raised is the exception that leaves the method, "none" if none
UploadFileOn(bucket, fs, local_file_path, gcs_file_path, fault) ==
    LET exc == UploadFromFilename(fs, local_file_path, fault)
    IN  IF exc = "none"
        THEN [bucket |-> WriteFile(bucket, gcs_file_path, fs[local_file_path]),
              result |-> TRUE, exc |-> exc, raised |-> "none"]
        ELSE IF Caught(exc)
        THEN [bucket |-> bucket, result |-> FALSE, exc |-> exc, raised |-> "none"]
        ELSE [bucket |-> bucket, result |-> FALSE, exc |-> exc, raised |-> exc]

\* upload_file where ok is whether blob.upload_from_filename goes through
UploadFile(bucket, fs, local_file_path, gcs_file_path, ok) ==
    UploadFileOn(bucket, fs, local_file_path, gcs_file_path,
                 IF ok THEN "none" ELSE "GoogleAPIError")

\* the entry of the upload log for one upload_file call
UploadEntry(fs, local_file_path, gcs_file_path, up) ==
    [local_file_path |-> local_file_path,
     gcs_file_path |-> gcs_file_path,
     content |-> IF local_file_path \in DOMAIN fs THEN fs[local_file_path] ELSE None,
     result |-> up.result, exc |-> up.exc, raised |-> up.raised]

-----------------------------------------------------------------------------
(* ResolutionActions.handle_resolution *)

Workers == {1, 2}

IdleDisp ==
    [pc |-> "idle", order_id |-> "", classification |-> None, comment |-> "",
     resolved_folder |-> "", unresolved_folder |-> "", local_temp_dir |-> "",
     file_name |-> <<>>, local_file_path |-> <<>>, s3_file_path |-> <<>>,
     text |-> <<>>, written |-> 0, uploaded |-> 0, invalid_log |-> FALSE]

EnterDispatch(order_id, classification, comment, resolved_folder, unresolved_folder, temp_dir) ==
    [IdleDisp EXCEPT !.pc = "called", !.order_id = order_id,
                     !.classification = classification, !.comment = comment,
                     !.resolved_folder = resolved_folder,
                     !.unresolved_folder = unresolved_folder,
                     !.local_temp_dir = temp_dir]

\* f"Order ID: {order_id}\nComment: {comment}\nStatus: Resolved"
ResolvedText(order_id, comment) ==
    <<"Order ID: ", Str(order_id), "\n", "Comment: ", Str(comment), "\n",
      "Status: ", "Resolved">>

\* generate_unresolved_summary
UnresolvedSummary(order_id, comment) ==
    <<"Order ID: ", Str(order_id), "\n", "Comment: ", Str(comment), "\n",
      "Status: ", "Unresolved", "\n", "Next Steps: Manual review required.">>

\* faulty variant: the two destination folders exchanged
BranchSwapsFolders(f) ==
    IF f.classification = Resolved
    THEN LET file_name == FileName(f.order_id, "_resolved.txt")
         IN  [f EXCEPT !.pc = "open", !.file_name = file_name,
                       !.local_file_path = Join(f.local_temp_dir, file_name),
                       !.s3_file_path = Join(f.unresolved_folder, file_name),
                       !.text = ResolvedText(f.order_id, f.comment)]
    ELSE IF f.classification = Unresolved
    THEN LET file_name == FileName(f.order_id, "_unresolved.txt")
         IN  [f EXCEPT !.pc = "open", !.file_name = file_name,
                       !.local_file_path = Join(f.local_temp_dir, file_name),
                       !.s3_file_path = Join(f.resolved_folder, file_name),
                       !.text = UnresolvedSummary(f.order_id, f.comment)]
    ELSE [f EXCEPT !.pc = "returned", !.invalid_log = TRUE]

\* faulty variant: a plain else in place of the elif
BranchInvalidAsUnresolved(f) ==
    IF f.classification = Resolved
    THEN LET file_name == FileName(f.order_id, "_resolved.txt")
         IN  [f EXCEPT !.pc = "open", !.file_name = file_name,
                       !.local_file_path = Join(f.local_temp_dir, file_name),
                       !.s3_file_path = Join(f.resolved_folder, file_name),
                       !.text = ResolvedText(f.order_id, f.comment)]
    ELSE LET file_name == FileName(f.order_id, "_unresolved.txt")
         IN  [f EXCEPT !.pc = "open", !.file_name = file_name,
                       !.local_file_path = Join(f.local_temp_dir, file_name),
                       !.s3_file_path = Join(f.unresolved_folder, file_name),
                       !.text = UnresolvedSummary(f.order_id, f.comment)]

\* if classification == "Resolved": ... elif classification == "Unresolved": ...
\* else: logging.error("Invalid classification ...")
Branch(f) ==
    IF f.classification = Resolved
    THEN LET file_name == FileName(f.order_id, "_resolved.txt")
         IN  [f EXCEPT !.pc = "open", !.file_name = file_name,
                       !.local_file_path = Join(f.local_temp_dir, file_name),
                       !.s3_file_path = Join(f.resolved_folder, file_name),
                       !.text = ResolvedText(f.order_id, f.comment)]
    ELSE IF f.classification = Unresolved
    THEN LET file_name == FileName(f.order_id, "_unresolved.txt")
         IN  [f EXCEPT !.pc = "open", !.file_name = file_name,
                       !.local_file_path = Join(f.local_temp_dir, file_name),
                       !.s3_file_path = Join(f.unresolved_folder, file_name),
                       !.text = UnresolvedSummary(f.order_id, f.comment)]
    ELSE [f EXCEPT !.pc = "returned", !.invalid_log = TRUE]

DispatchBranch(w) ==
    /\ disp[w].pc = "called"
    /\ disp' = [disp EXCEPT ![w] = Branch(@)]
    /\ UNCHANGED <<cls, scratch, store, uploads, progress, orch, comments_df,
                   num_clusters, audit, ingest>>

\* faulty variant: a failed open is passed over and the upload goes ahead
DispatchOpenSwallows(w) ==
    /\ disp[w].pc = "open"
    /\ \E ok \in BOOLEAN :
         IF ok
         THEN /\ scratch' = WriteFile(scratch, disp[w].local_file_path, <<>>)
              /\ disp' = [disp EXCEPT ![w].pc = "write"]
         ELSE /\ scratch' = scratch
              /\ disp' = [disp EXCEPT ![w].pc = "upload"]
    /\ UNCHANGED <<cls, store, uploads, progress, orch, comments_df,
                   num_clusters, audit, ingest>>

\* with open(local_file_path, "w") as f: the file is created or truncated,
\* or open raises OSError
DispatchOpen(w) ==
    /\ disp[w].pc = "open"
    /\ \E ok \in BOOLEAN :
         IF ok
         THEN /\ scratch' = WriteFile(scratch, disp[w].local_file_path, <<>>)
              /\ disp' = [disp EXCEPT ![w].pc = "write"]
         ELSE /\ scratch' = scratch
              /\ disp' = [disp EXCEPT ![w].pc = "raised"]
    /\ UNCHANGED <<cls, store, uploads, progress, orch, comments_df,
                   num_clusters, audit, ingest>>

\* f.write(...) and the close at the end of the with block, then
\* self.progress(0.5, desc="Starting Upload"); or the write raises OSError and
\* leaves the truncated file
DispatchWrite(w) ==
    /\ disp[w].pc = "write"
    /\ \E ok \in BOOLEAN :
         IF ok
         THEN /\ scratch' = WriteFile(scratch, disp[w].local_file_path, disp[w].text)
              /\ disp' = [disp EXCEPT ![w].pc = "upload", ![w].written = @ + 1]
              /\ progress' = Append(progress, <<1, 2>>)
         ELSE /\ scratch' = scratch
              /\ disp' = [disp EXCEPT ![w].pc = "raised"]
              /\ progress' = progress
    /\ UNCHANGED <<cls, store, uploads, orch, comments_df, num_clusters, audit, ingest>>

\* faulty variant: a failed upload is tried once more
DispatchUploadRetries(w) ==
    /\ disp[w].pc = "upload"
    /\ \E ok \in BOOLEAN :
         LET up == UploadFile(store, scratch, disp[w].local_file_path,
                              disp[w].s3_file_path, ok)
         IN  /\ store' = up.bucket
             /\ uploads' = Append(uploads,
                    UploadEntry(scratch, disp[w].local_file_path,
                                disp[w].s3_file_path, up))
             /\ disp' = [disp EXCEPT
                           ![w].pc = IF ~up.result /\ disp[w].uploaded = 0
                                     THEN "upload" ELSE "returned",
                           ![w].uploaded = @ + 1]
    /\ progress' = Append(progress, <<1, 1>>)
    /\ UNCHANGED <<cls, scratch, orch, comments_df, num_clusters, audit, ingest>>

\* self.cloud_storage.upload_file(local_file_path, s3_file_path), its result
\* dropped, then self.progress(1, desc="Finishing Upload") and the return
DispatchUpload(w) ==
    /\ disp[w].pc = "upload"
    /\ \E ok \in BOOLEAN :
         LET up == UploadFile(store, scratch, disp[w].local_file_path,
                              disp[w].s3_file_path, ok)
         IN  /\ store' = up.bucket
             /\ uploads' = Append(uploads,
                    UploadEntry(scratch, disp[w].local_file_path,
                                disp[w].s3_file_path, up))
    /\ disp' = [disp EXCEPT ![w].pc = "returned", ![w].uploaded = @ + 1]
    /\ progress' = Append(progress, <<1, 1>>)
    /\ UNCHANGED <<cls, scratch, orch, comments_df, num_clusters, audit, ingest>>

-----------------------------------------------------------------------------
(* Tables *)

\* a DataFrame, or None
Frame(rows) == [none |-> FALSE, rows |-> rows]
NoneFrame == [none |-> TRUE, rows |-> <<>>]

\* DataFrame.empty
Empty(df) == df.rows = <<>>

\* the rows a comments table is drawn from: a comment, or a missing one
CommentRecords == [transaction_id : OrderIds, comments : {"c1", NaN}]

RECURSIVE Tables(_)
Tables(n) ==
    IF n = 0 THEN {<<>>}
    ELSE Tables(n - 1) \cup
         {Append(t, r) : t \in {u \in Tables(n - 1) : Len(u) = n - 1},
                         r \in CommentRecords}

-----------------------------------------------------------------------------
(* ResolutionActions.identify_patterns *)

\* faulty variant: no row is dropped
DropNaKeepsAll(rows) == rows

\* resolved_comments_df.dropna(subset=['comment'])
DropNa(rows) == SelectSeq(rows, LAMBDA r : r.comment # NaN)

WithCluster(r, c) ==
    [order_id |-> r.order_id, comment |-> r.comment, status |-> r.status,
     cluster |-> c]

NoPatterns == [raised |-> FALSE, rows |-> <<>>, encode_calls |-> 0, fit_calls |-> 0]

\* faulty variant: without the second emptiness test
IdentifyPatternsChecksOnce(rows, n_clusters) ==
    IF rows = <<>>
    THEN {NoPatterns}
    ELSE LET kept == DropNa(rows)
         IN  IF Len(kept) < n_clusters
             THEN {[raised |-> TRUE, rows |-> <<>>, encode_calls |-> 1,
                    fit_calls |-> 1]}
             ELSE {[raised |-> FALSE,
                    rows |-> [i \in 1..Len(kept) |-> WithCluster(kept[i], clusters[i])],
                    encode_calls |-> 1, fit_calls |-> 1] :
                   clusters \in [1..Len(kept) -> 0..(n_clusters - 1)]}

\* Every way identify_patterns can end on the rows of resolved_comments_df:
\* an empty table; KMeans raising ValueError because it got fewer samples than
\* clusters; or the kept rows, each with a label KMeans chose in 0..n_clusters-1.
IdentifyPatterns(rows, n_clusters) ==
    IF rows = <<>>
    THEN {NoPatterns}
    ELSE LET kept == DropNa(rows)
         IN  IF kept = <<>>
             THEN {NoPatterns}
             ELSE IF Len(kept) < n_clusters
             THEN {[raised |-> TRUE, rows |-> <<>>, encode_calls |-> 1,
                    fit_calls |-> 1]}
             ELSE {[raised |-> FALSE,
                    rows |-> [i \in 1..Len(kept) |-> WithCluster(kept[i], clusters[i])],
                    encode_calls |-> 1, fit_calls |-> 1] :
                   clusters \in [1..Len(kept) -> 0..(n_clusters - 1)]}

-----------------------------------------------------------------------------
(* main.purge *)

\* faulty variant: a pattern for the resolved files only
PurgeMatchesResolvedOnly(name) == name[2] = "_resolved.txt"

\* re.search(r".*_(resolved|unresolved)\.txt$", f) on a file name
PurgeMatches(name) == name[2] \in {"_resolved.txt", "_unresolved.txt"}

\* purge(dir, pattern): os.remove every file of dir whose name matches
Purge(fs, dir) ==
    [p \in {q \in DOMAIN fs : ~(q[1] = dir /\ PurgeMatches(q[2]))} |-> fs[p]]

-----------------------------------------------------------------------------
(* FileUploadIngestor.ingest_data and SFTPIngestor.fetch_data *)

\* str.lower()
LowerStr(s) == [i \in 1..Len(s) |-> Lower(s[i])]

Csv == <<"c", "s", "v">>
Excel == <<"e", "x", "c", "e", "l">>

\* the values handed in as file_type
FileTypes ==
    { Csv, <<"C", "S", "V">>, Excel, <<"E", "x", "c", "e", "l">>,
      <<"t", "x", "t">>, <<"x", "l", "s", "x">>, <<>> }

\* what reading the content can do: go through, or raise
ReadFaults == {"none", "ParserError"}

\* what opening and reading the remote file can do
RemoteFaults == {"none", "FileNotFoundError", "IOError"}

\* what connect() can do: go through; paramiko.Transport(...) raises; or
\* transport.connect(...) raises
ConnectFaults == {"none", "transport_raises", "connect_raises"}

\* sftp, transport: "None", "open" or "closed"
IdleIngest == [sftp |-> "None", transport |-> "None", log |-> <<>>]

\* the try body of both methods: the exception it raises, "none" when it
\* returns the table; any other file type is ValueError
ReadAs(file_type, fault) ==
    IF LowerStr(file_type) = Csv THEN fault
    ELSE IF LowerStr(file_type) = Excel THEN fault
    ELSE "ValueError"

\* FileUploadIngestor.ingest_data: except Exception as e: log, return None
IngestData(file_type, fault) ==
    LET exc == ReadAs(file_type, fault)
    IN  [method |-> "ingest_data", file_type |-> file_type, exc |-> exc,
         result |-> IF exc = "none" THEN "DataFrame" ELSE "None",
         raised |-> "none"]

\* SFTPIngestor.connect on the fields sftp and transport; the exception is
\* logged and raised again
Connect(ing, fault) ==
    IF fault = "none"
    THEN [ing EXCEPT !.sftp = "open", !.transport = "open"]
    ELSE IF fault = "connect_raises"
    THEN [ing EXCEPT !.transport = "open"]
    ELSE ing

\* the finally clause: if self.sftp: self.sftp.close(); if self.transport: ...
CloseBoth(ing) ==
    [ing EXCEPT !.sftp = IF @ = "None" THEN @ ELSE "closed",
                !.transport = IF @ = "None" THEN @ ELSE "closed"]

\* SFTPIngestor.fetch_data: connect when self.sftp is not set, read by file
\* type over self.sftp (a closed session raises), both except clauses return
\* None, the finally clause closes. Gives the fields after the call and the
\* entry of the call log.
FetchData(ing, file_type, connect_fault, fault) ==
    LET connects == ing.sftp = "None"
        conn == IF connects THEN Connect(ing, connect_fault) ELSE ing
        exc == IF connects /\ connect_fault # "none" THEN "SSHException"
               ELSE IF LowerStr(file_type) \in {Csv, Excel} /\ conn.sftp = "closed"
               THEN "OSError"
               ELSE ReadAs(file_type, fault)
    IN  [fields |-> CloseBoth(conn),
         entry |-> [method |-> "fetch_data", file_type |-> file_type, exc |-> exc,
                    result |-> IF exc = "none" THEN "DataFrame" ELSE "None",
                    raised |-> "none", connected |-> connects,
                    session |-> conn.sftp]]

\* a caller calls ingest_data(file_content, file_type)
CallIngestData ==
    /\ orch.pc = "idle"
    /\ Len(ingest.log) < MaxCalls
    /\ \E file_type \in FileTypes, fault \in ReadFaults :
         ingest' = [ingest EXCEPT !.log = Append(@, IngestData(file_type, fault))]
    /\ UNCHANGED <<cls, disp, scratch, store, uploads, progress, orch, comments_df,
                   num_clusters, audit>>

\* a caller calls fetch_data(remote_path, file_type); audit keeps the fields
\* as the call found them
CallFetchData ==
    /\ orch.pc = "idle"
    /\ Len(ingest.log) < MaxCalls
    /\ \E file_type \in FileTypes, connect_fault \in ConnectFaults, fault \in RemoteFaults :
         LET out == FetchData(ingest, file_type, connect_fault, fault)
         IN  ingest' = [out.fields EXCEPT !.log = Append(@, out.entry)]
    /\ audit' = Append(audit, [sftp |-> ingest.sftp, transport |-> ingest.transport,
                               at |-> Len(ingest.log) + 1])
    /\ UNCHANGED <<cls, disp, scratch, store, uploads, progress, orch, comments_df,
                   num_clusters>>

-----------------------------------------------------------------------------
(* main.handle_resolution *)

IdleOrch ==
    [pc |-> "idle", actions |-> "unbound", index |-> 0, order_id |-> "", comment |-> "",
     classification |-> None, processed_data |-> <<>>,
     patterns |-> NoPatterns, returned |-> "",
     processed_data_df |-> NoneFrame, pattern_analysis_results |-> NoneFrame]

NoAudit ==
    [classify_calls |-> 0, classification |-> None, dispatch_calls |-> 0,
     rows |-> 0, raised |-> FALSE, upload_results |-> <<>>]

total_comments == Len(comments_df.rows)

\* return None, None, <message>
ReturnNone(f, how) ==
    [f EXCEPT !.pc = "returned", !.returned = how,
              !.processed_data_df = NoneFrame,
              !.pattern_analysis_results = NoneFrame]

\* if comments_df is None or comments_df.empty: return None, None, "No comments ..."
\* otherwise progress(0, desc="Starting Resolution")
OrchEnter ==
    /\ orch.pc = "called"
    /\ IF comments_df.none \/ Empty(comments_df)
       THEN /\ orch' = ReturnNone(orch, "no_comments")
            /\ progress' = progress
       ELSE /\ orch' = [orch EXCEPT !.pc = "setup"]
            /\ progress' = Append(progress, <<0, 1>>)
    /\ UNCHANGED <<cls, disp, scratch, store, uploads, comments_df,
                   num_clusters, audit, ingest>>

\* LLMClassifier(...), CloudStorage(...), ResolutionActions(...): each can
\* raise, which the except clause at the end turns into a return
OrchSetup ==
    /\ orch.pc = "setup"
    /\ \E ok \in BOOLEAN :
         orch' = IF ok THEN [orch EXCEPT !.pc = "loop", !.actions = "bound",
                                         !.processed_data = <<>>]
                 ELSE ReturnNone(orch, "error")
    /\ UNCHANGED <<cls, disp, scratch, store, uploads, progress, comments_df,
                   num_clusters, audit, ingest>>

\* for index, row in comments_df.iterrows(): progress(index / total_comments),
\* then classifier.classify_comment(order_id, comment) on a worker thread
OrchNextRecord ==
    /\ orch.pc = "loop"
    /\ orch.index < total_comments
    /\ progress' = Append(progress, <<orch.index, total_comments>>)
    /\ cls' = EnterClassify(DefaultMaxRetries)
    /\ orch' = [orch EXCEPT !.pc = "classifying",
                            !.order_id = comments_df.rows[orch.index + 1].transaction_id,
                            !.comment = comments_df.rows[orch.index + 1].comments]
    /\ audit' = [audit EXCEPT ![orch.index + 1].classify_calls = @ + 1]
    /\ UNCHANGED <<disp, scratch, store, uploads, comments_df, num_clusters, ingest>>

\* if classification:
ShouldDispatch(classification) == Truthy(classification)

\* faulty variant: the dispatch is started and not awaited
OrchClassifiedNoAwait ==
    /\ orch.pc = "classifying"
    /\ cls.pc = "returned"
    /\ LET classification == cls.result
       IN  /\ IF ShouldDispatch(classification)
              THEN /\ disp' = [disp EXCEPT ![1] =
                            EnterDispatch(orch.order_id, classification,
                                          orch.comment, gcs_resolved_folder,
                                          gcs_unresolved_folder, local_temp_dir)]
                   /\ orch' = [orch EXCEPT !.pc = "loop", !.index = @ + 1,
                                           !.classification = classification]
                   /\ audit' = [audit EXCEPT
                                  ![orch.index + 1].classification = classification,
                                  ![orch.index + 1].dispatch_calls = @ + 1]
              ELSE /\ disp' = disp
                   /\ orch' = [orch EXCEPT !.pc = "loop", !.index = @ + 1,
                                           !.classification = classification]
                   /\ audit' = [audit EXCEPT
                                  ![orch.index + 1].classification = classification]
    /\ cls' = IdleCls
    /\ UNCHANGED <<scratch, store, uploads, progress, comments_df, num_clusters, ingest>>

\* classification = await ...; if classification: actions.handle_resolution(...)
\* on a worker thread; a falsy classification goes to the next record
OrchClassified ==
    /\ orch.pc = "classifying"
    /\ cls.pc = "returned"
    /\ LET classification == cls.result
       IN  /\ IF ShouldDispatch(classification)
              THEN /\ disp' = [disp EXCEPT ![1] =
                            EnterDispatch(orch.order_id, classification,
                                          orch.comment, gcs_resolved_folder,
                                          gcs_unresolved_folder, local_temp_dir)]
                   /\ orch' = [orch EXCEPT !.pc = "dispatching",
                                           !.classification = classification]
                   /\ audit' = [audit EXCEPT
                                  ![orch.index + 1].classification = classification,
                                  ![orch.index + 1].dispatch_calls = @ + 1]
              ELSE /\ disp' = disp
                   /\ orch' = [orch EXCEPT !.pc = "loop", !.index = @ + 1,
                                           !.classification = classification]
                   /\ audit' = [audit EXCEPT
                                  ![orch.index + 1].classification = classification]
    /\ cls' = IdleCls
    /\ UNCHANGED <<scratch, store, uploads, progress, comments_df, num_clusters, ingest>>

\* faulty variant: the row put in front
PrependRow(processed_data, row) == <<row>> \o processed_data

\* processed_data.append({...})
AppendRow(processed_data, row) == Append(processed_data, row)

\* what the last n upload_file calls returned
LastResults(log, n) == [k \in 1..n |-> log[Len(log) - n + k].result]

\* the dispatcher returned: processed_data.append({'order_id': ..., 'comment':
\* ..., 'status': classification}), next record
OrchDispatched ==
    /\ orch.pc = "dispatching"
    /\ disp[1].pc = "returned"
    /\ orch' = [orch EXCEPT
                  !.pc = "loop", !.index = @ + 1,
                  !.processed_data = AppendRow(@,
                      [order_id |-> orch.order_id, comment |-> orch.comment,
                       status |-> orch.classification])]
    /\ disp' = [disp EXCEPT ![1] = IdleDisp]
    /\ audit' = [audit EXCEPT ![orch.index + 1].rows = @ + 1,
                              ![orch.index + 1].upload_results =
                                  LastResults(uploads, disp[1].uploaded)]
    /\ UNCHANGED <<cls, scratch, store, uploads, progress, comments_df,
                   num_clusters, ingest>>

\* the dispatcher raised: except Exception as e: return None, None, str(e)
OrchDispatchRaised ==
    /\ orch.pc = "dispatching"
    /\ disp[1].pc = "raised"
    /\ orch' = ReturnNone(orch, "error")
    /\ disp' = [disp EXCEPT ![1] = IdleDisp]
    /\ audit' = [audit EXCEPT ![orch.index + 1].raised = TRUE]
    /\ UNCHANGED <<cls, scratch, store, uploads, progress, comments_df,
                   num_clusters, ingest>>

\* processed_data_df[processed_data_df['status'] == 'Resolved']
ResolvedRows(processed_data) == SelectSeq(processed_data, LAMBDA r : r.status = Resolved)

\* faulty variant: a failure of identify_patterns still purges and returns the
\* result table
OrchPatternsKeepsTable ==
    /\ orch.pc = "loop"
    /\ orch.index >= total_comments
    /\ IF orch.processed_data = <<>>
       THEN orch' = ReturnNone(orch, "error")
       ELSE \E out \in IdentifyPatterns(ResolvedRows(orch.processed_data), num_clusters) :
              orch' = [orch EXCEPT !.pc = "purge", !.patterns = out]
    /\ UNCHANGED <<cls, disp, scratch, store, uploads, progress, comments_df,
                   num_clusters, audit, ingest>>

\* the loop is over: pd.DataFrame(processed_data); with no row the frame has no
\* 'status' column and the filter raises KeyError; otherwise identify_patterns
\* on the Resolved rows, which returns or raises
OrchPatterns ==
    /\ orch.pc = "loop"
    /\ orch.index >= total_comments
    /\ IF orch.processed_data = <<>>
       THEN orch' = ReturnNone(orch, "error")
       ELSE \E out \in IdentifyPatterns(ResolvedRows(orch.processed_data), num_clusters) :
              orch' = IF out.raised
                      THEN ReturnNone([orch EXCEPT !.patterns = out], "error")
                      ELSE [orch EXCEPT !.pc = "purge", !.patterns = out]
    /\ UNCHANGED <<cls, disp, scratch, store, uploads, progress, comments_df,
                   num_clusters, audit, ingest>>

\* purge(config.local_temp_dir, ...), progress(1), return the two tables
OrchFinish ==
    /\ orch.pc = "purge"
    /\ scratch' = Purge(scratch, local_temp_dir)
    /\ progress' = Append(progress, <<1, 1>>)
    /\ orch' = [orch EXCEPT !.pc = "returned", !.returned = "complete",
                            !.processed_data_df = Frame(orch.processed_data),
                            !.pattern_analysis_results = Frame(orch.patterns.rows)]
    /\ UNCHANGED <<cls, disp, store, uploads, comments_df, num_clusters, audit, ingest>>

-----------------------------------------------------------------------------
(* An orchestrator run *)

Init ==
    /\ cls = IdleCls
    /\ disp = [w \in Workers |-> IdleDisp]
    /\ scratch = InitialScratch
    /\ store = EmptyDir
    /\ uploads = <<>>
    /\ progress = <<>>
    /\ orch = [IdleOrch EXCEPT !.pc = "called"]
    /\ comments_df \in {NoneFrame} \cup {Frame(t) : t \in Tables(MaxRecords)}
    /\ num_clusters \in 1..MaxClusters
    /\ audit = [i \in 1..Len(comments_df.rows) |-> NoAudit]
    /\ ingest = IdleIngest

Next ==
    \/ OrchEnter
    \/ OrchSetup
    \/ OrchNextRecord
    \/ ClassifyAttempt(RunOutcomes)
    \/ ClassifyExhausted
    \/ OrchClassified
    \/ DispatchBranch(1)
    \/ DispatchOpen(1)
    \/ DispatchWrite(1)
    \/ DispatchUpload(1)
    \/ OrchDispatched
    \/ OrchDispatchRaised
    \/ OrchPatterns
    \/ OrchFinish

Spec == Init /\ [][Next]_vars

-----------------------------------------------------------------------------
(* A classify_comment call on its own, with any max_retries up to MaxRetries *)

InitClassifier ==
    /\ cls = IdleCls
    /\ disp = [w \in Workers |-> IdleDisp]
    /\ scratch = InitialScratch
    /\ store = EmptyDir
    /\ uploads = <<>>
    /\ progress = <<>>
    /\ orch = IdleOrch
    /\ comments_df = NoneFrame
    /\ num_clusters = 1
    /\ audit = <<>>
    /\ ingest = IdleIngest

CallClassify ==
    /\ orch.pc = "idle"
    /\ cls.pc = "idle"
    /\ \E max_retries \in 0..MaxRetries : cls' = EnterClassify(max_retries)
    /\ UNCHANGED <<disp, scratch, store, uploads, progress, orch, comments_df,
                   num_clusters, audit, ingest>>

NextClassifier ==
    \/ CallClassify
    \/ ClassifyAttempt(AllOutcomes)
    \/ ClassifyExhausted

SpecClassifier == InitClassifier /\ [][NextClassifier]_vars

-----------------------------------------------------------------------------
(* ResolutionActions.handle_resolution called on its own, MaxCalls times, one
   call after the other *)

\* the values handed in as classification: the two labels, None, and strings
\* that are neither label
DispatchOutcomes ==
    { Resolved, Unresolved, None, <<"I", "n", "v", "a", "l", "i", "d">>,
      <<"R", "e", "LONGS", "o", "l", "v", "e", "d">> }

InitDispatcher ==
    /\ cls = IdleCls
    /\ disp = [w \in Workers |-> IdleDisp]
    /\ scratch = InitialScratch
    /\ store = EmptyDir
    /\ uploads = <<>>
    /\ progress = <<>>
    /\ orch = IdleOrch
    /\ comments_df = NoneFrame
    /\ num_clusters = 1
    /\ audit = <<>>
    /\ ingest = IdleIngest

\* A caller calls handle_resolution; audit keeps what the call found at entry.
CallDispatch ==
    /\ orch.pc = "idle"
    /\ disp[1].pc \in {"idle", "returned", "raised"}
    /\ Len(audit) < MaxCalls
    /\ \E order_id \in OrderIds, classification \in DispatchOutcomes, comment \in Comments :
         /\ disp' = [disp EXCEPT ![1] =
                       EnterDispatch(order_id, classification, comment, gcs_resolved_folder,
                                     gcs_unresolved_folder, local_temp_dir)]
         /\ audit' = Append(audit, [scratch |-> scratch, store |-> store,
                                    n_uploads |-> Len(uploads),
                                    order_id |-> order_id,
                                    classification |-> classification,
                                    comment |-> comment])
    /\ UNCHANGED <<cls, scratch, store, uploads, progress, orch, comments_df,
                   num_clusters, ingest>>

NextDispatcher ==
    \/ CallDispatch
    \/ DispatchBranch(1)
    \/ DispatchOpen(1)
    \/ DispatchWrite(1)
    \/ DispatchUpload(1)

SpecDispatcher == InitDispatcher /\ [][NextDispatcher]_vars

-----------------------------------------------------------------------------
(* Two ResolutionActions.handle_resolution calls for two different records, one
   on each worker thread, their steps interleaved in every order *)

InitConcurrent ==
    /\ cls = IdleCls
    /\ disp = [w \in Workers |-> IdleDisp]
    /\ scratch = InitialScratch
    /\ store = EmptyDir
    /\ uploads = <<>>
    /\ progress = <<>>
    /\ orch = IdleOrch
    /\ comments_df = NoneFrame
    /\ num_clusters = 1
    /\ audit = <<>>
    /\ ingest = IdleIngest

\* worker w is handed a record other than the one the other worker has
CallDispatchOn(w) ==
    /\ orch.pc = "idle"
    /\ disp[w].pc = "idle"
    /\ \E order_id \in OrderIds, classification \in DispatchOutcomes, comment \in Comments :
         /\ \A v \in Workers \ {w} :
              disp[v].pc # "idle" =>
                  <<disp[v].order_id, disp[v].comment>> # <<order_id, comment>>
         /\ disp' = [disp EXCEPT ![w] =
                       EnterDispatch(order_id, classification, comment, gcs_resolved_folder,
                                     gcs_unresolved_folder, local_temp_dir)]
    /\ UNCHANGED <<cls, scratch, store, uploads, progress, orch, comments_df,
                   num_clusters, audit, ingest>>

NextConcurrent ==
    \E w \in Workers :
        \/ CallDispatchOn(w)
        \/ DispatchBranch(w)
        \/ DispatchOpen(w)
        \/ DispatchWrite(w)
        \/ DispatchUpload(w)

SpecConcurrent == InitConcurrent /\ [][NextConcurrent]_vars

-----------------------------------------------------------------------------
(* ResolutionActions.identify_patterns called on its own: the caller holds the
   table in processed_data and passes it as resolved_comments_df *)

PatternRecords == [order_id : OrderIds, comment : {"c1", "c2", NaN}, status : {Resolved}]

RECURSIVE PatternTables(_)
PatternTables(n) ==
    IF n = 0 THEN {<<>>}
    ELSE PatternTables(n - 1) \cup
         {Append(t, r) : t \in {u \in PatternTables(n - 1) : Len(u) = n - 1},
                         r \in PatternRecords}

InitPatterns ==
    /\ cls = IdleCls
    /\ disp = [w \in Workers |-> IdleDisp]
    /\ scratch = InitialScratch
    /\ store = EmptyDir
    /\ uploads = <<>>
    /\ progress = <<>>
    /\ orch \in {[IdleOrch EXCEPT !.pc = "patterns", !.actions = "bound",
                                  !.processed_data = t] : t \in PatternTables(MaxRows)}
    /\ comments_df = NoneFrame
    /\ num_clusters \in 1..MaxClusters
    /\ audit = <<>>
    /\ ingest = IdleIngest

\* actions.identify_patterns(resolved_comments_df, n_clusters=...) returns or raises
CallIdentifyPatterns ==
    /\ orch.pc = "patterns"
    /\ \E out \in IdentifyPatterns(orch.processed_data, num_clusters) :
         orch' = [orch EXCEPT !.pc = IF out.raised THEN "patterns_raised"
                                     ELSE "patterns_returned",
                              !.patterns = out]
    /\ UNCHANGED <<cls, disp, scratch, store, uploads, progress, comments_df,
                   num_clusters, audit, ingest>>

NextPatterns == CallIdentifyPatterns

SpecPatterns == InitPatterns /\ [][NextPatterns]_vars

-----------------------------------------------------------------------------
(* CloudStorage.upload_file called on its own, MaxCalls times *)

MissingFile == Join(local_temp_dir, <<"missing", ".txt">>)

\* the local paths handed to upload_file: two files that exist, one that does not
LocalPaths == {CategorizedCsv, Join(local_temp_dir, FileName("o1", "_resolved.txt")), MissingFile}

BlobNames ==
    {Join(gcs_resolved_folder, FileName("o1", "_resolved.txt")),
     Join(gcs_unresolved_folder, FileName("o1", "_unresolved.txt"))}

InitUpload ==
    /\ cls = IdleCls
    /\ disp = [w \in Workers |-> IdleDisp]
    /\ scratch = WriteFile(InitialScratch,
                           Join(local_temp_dir, FileName("o1", "_resolved.txt")),
                           ResolvedText("o1", "c1"))
    /\ store = EmptyDir
    /\ uploads = <<>>
    /\ progress = <<>>
    /\ orch = IdleOrch
    /\ comments_df = NoneFrame
    /\ num_clusters = 1
    /\ audit = <<>>
    /\ ingest = IdleIngest

\* a caller calls upload_file(local_file_path, gcs_file_path); audit keeps the
\* bucket as the call found it
CallUploadFile ==
    /\ orch.pc = "idle"
    /\ Len(uploads) < MaxCalls
    /\ \E local_file_path \in LocalPaths, gcs_file_path \in BlobNames, fault \in ClientFaults :
         LET up == UploadFileOn(store, scratch, local_file_path, gcs_file_path, fault)
         IN  /\ store' = up.bucket
             /\ uploads' = Append(uploads,
                    UploadEntry(scratch, local_file_path, gcs_file_path, up))
    /\ audit' = Append(audit, [store |-> store])
    /\ UNCHANGED <<cls, disp, scratch, progress, orch, comments_df, num_clusters, ingest>>

NextUpload == CallUploadFile

SpecUpload == InitUpload /\ [][NextUpload]_vars

-----------------------------------------------------------------------------
(* The two ingestors called on their own, MaxCalls calls in all *)

InitIngest ==
    /\ cls = IdleCls
    /\ disp = [w \in Workers |-> IdleDisp]
    /\ scratch = InitialScratch
    /\ store = EmptyDir
    /\ uploads = <<>>
    /\ progress = <<>>
    /\ orch = IdleOrch
    /\ comments_df = NoneFrame
    /\ num_clusters = 1
    /\ audit = <<>>
    /\ ingest = IdleIngest

NextIngest ==
    \/ CallIngestData
    \/ CallFetchData

SpecIngest == InitIngest /\ [][NextIngest]_vars

-----------------------------------------------------------------------------
(* Claims about classify_comment, checked under SpecClassifier *)

\* the texts that are 'resolved', and those that are 'unresolved', in some casing
ResolvedCasings == Casings(Resolved)
UnresolvedCasings == Casings(Unresolved)

ReceivedLabel ==
    cls.reply # None /\ Strip(cls.reply) \in ResolvedCasings \cup UnresolvedCasings

CanonicalLabel == IF Strip(cls.reply) \in ResolvedCasings THEN Resolved ELSE Unresolved

AllOf(history, kind) == \A i \in 1..Len(history) : history[i] = kind

\* C1: whenever the reply just received is, once stripped, 'resolved' or
\* 'unresolved' in any casing, the call has returned on that attempt, with
\* exactly 'Resolved' or 'Unresolved' respectively.
C1_CanonicalLabel ==
    ReceivedLabel =>
        /\ cls.pc = "returned"
        /\ cls.calls = Len(cls.history)
        /\ Strip(cls.reply) \in ResolvedCasings => cls.result = Resolved
        /\ Strip(cls.reply) \in UnresolvedCasings => cls.result = Unresolved

C1_Witness ==
    /\ cls.pc = "returned"
    /\ cls.reply = <<"LF">> \o <<"u", "N", "r", "E", "s", "O", "l", "V", "e", "D">> \o <<"LF">>
    /\ cls.result = Unresolved
    /\ cls.calls = 2

\* C2: a call that has returned and whose every attempt got a reply failing the
\* two-label grammar returned None and made exactly max_retries completion calls.
C2_AllInvalidGivesNone ==
    (cls.pc = "returned" /\ AllOf(cls.history, "invalid")) =>
        /\ cls.result = None
        /\ cls.calls = cls.max_retries

C2_Witness ==
    /\ cls.pc = "returned"
    /\ cls.max_retries = 3
    /\ cls.history = <<"invalid", "invalid", "invalid">>
    /\ cls.reply = Resolved \o <<".">>
    /\ cls.result = None
    /\ cls.calls = 3

\* C3: when the first k attempts (k < max_retries) failed with a rate-limit
\* error and attempt k+1 received a valid label, the call has returned that
\* label (canonical form) having made exactly k+1 completion calls; the call
\* being over, no further completion call is made.
C3_RateLimitThenLabel ==
    \A k \in 0..MaxRetries :
        ( /\ cls.pc # "idle"
          /\ k < cls.max_retries
          /\ Len(cls.history) = k + 1
          /\ AllOf(SubSeq(cls.history, 1, k), "rate_limit")
          /\ cls.history[k + 1] \notin {"rate_limit", "api_error", "other"}
          /\ ReceivedLabel )
        => /\ cls.pc = "returned"
           /\ cls.result = CanonicalLabel
           /\ cls.calls = k + 1
           /\ ~ENABLED ClassifyAttempt(AllOutcomes)

C3_Witness ==
    /\ cls.pc = "returned"
    /\ cls.max_retries = 3
    /\ cls.history = <<"rate_limit", "rate_limit", "valid">>
    /\ cls.reply = <<"r", "e", "s", "o", "l", "v", "e", "d">>
    /\ cls.result = Resolved
    /\ cls.calls = 3

\* C4: whatever the service does, a call makes at most max_retries completion
\* calls (rate-limit and connectivity failures count against the same ceiling)
\* and, once returned, has returned 'Resolved', 'Unresolved' or None.
C4_BoundedCallsLabelOrNone ==
    /\ cls.calls <= cls.max_retries
    /\ cls.pc = "returned" => cls.result \in {Resolved, Unresolved, None}

\* how many entries of history have their kind in kinds
CountOf(history, kinds) == Cardinality({i \in 1..Len(history) : history[i] \in kinds})

\* C21: every attempt that ended in an invalid reply, like every attempt that
\* ended in a rate-limit or connectivity failure, has used up one attempt and
\* has been followed by one retry delay.
C21_InvalidRetriedLikeTransient ==
    (cls.pc = "running"
        /\ \A i \in 1..Len(cls.history) :
             cls.history[i] \in {"invalid", "rate_limit", "api_error"}) =>
        /\ cls.attempt = Len(cls.history)
        /\ cls.waits = Len(cls.history)

\* C22: a call that has returned None with all its attempts used up has
\* written the terminal 'Failed to classify comment after N attempts' log,
\* whatever the last attempt failed with.
C22_ExhaustedLogsFailure ==
    (cls.pc = "returned" /\ cls.result = None /\ cls.calls = cls.max_retries)
        => cls.failed_log

\* the step on which an attempt ends in an exception that is neither a
\* rate-limit nor a connectivity or server error
OtherExceptionStep == cls.pc = "running" /\ cls'.history = Append(cls.history, "other")

\* C23: an attempt that fails with such an exception, when it is the final
\* attempt, returns None at once with no retry delay; when it is not, it waits
\* the retry delay once and the next attempt can be made.
C23_OtherExceptionFinalNoWait ==
    [][OtherExceptionStep =>
          IF cls.attempt = cls.max_retries - 1
          THEN /\ cls'.pc = "returned"
               /\ cls'.result = None
               /\ cls'.waits = cls.waits
               /\ cls'.calls = cls.calls + 1
          ELSE /\ cls'.pc = "running"
               /\ cls'.waits = cls.waits + 1
               /\ cls'.attempt = cls.attempt + 1
               /\ InLoop(cls')]_vars

C23_Witness ==
    /\ cls.pc = "returned"
    /\ cls.max_retries = 3
    /\ cls.history = <<"other", "invalid", "other">>
    /\ cls.result = None
    /\ cls.waits = 1
    /\ cls.calls = 3

\* C29: a call whose every attempt (at least one) failed with a rate-limit or
\* connectivity error and that has returned has waited exactly max_retries
\* times, the last wait after the final attempt; one whose every attempt failed
\* with another exception has waited max_retries - 1 times; and no call waits
\* more than max_retries times.
C29_WaitsByFailureKind ==
    /\ cls.waits <= cls.max_retries
    /\ (cls.pc = "returned" /\ cls.history # <<>>) =>
         /\ CountOf(cls.history, {"rate_limit", "api_error"}) = Len(cls.history)
               => /\ cls.result = None
                  /\ cls.calls = cls.max_retries
                  /\ cls.waits = cls.max_retries
         /\ CountOf(cls.history, {"other"}) = Len(cls.history)
               => /\ cls.result = None
                  /\ cls.calls = cls.max_retries
                  /\ cls.waits = cls.max_retries - 1
    /\ (cls.pc = "running" /\ cls.history # <<>>
           /\ cls.history[Len(cls.history)] \in {"rate_limit", "api_error"})
         => cls.waits >= 1 /\ cls.attempt = Len(cls.history)

C29_Witness ==
    /\ cls.pc = "returned"
    /\ cls.max_retries = 3
    /\ cls.history = <<"api_error", "rate_limit", "rate_limit">>
    /\ cls.result = None
    /\ cls.waits = 3
    /\ cls.failed_log

-----------------------------------------------------------------------------
(* Claims about handle_resolution of ResolutionActions, checked under
   SpecDispatcher *)

\* text contains the pieces of part, one after the other
Contains(text, part) ==
    \E i \in 0..(Len(text) - Len(part)) :
        \A j \in 1..Len(part) : text[i + j] = part[j]

AtEntry == audit[Len(audit)]

\* what a call with a label must have done by the time it returns
Dispatched(f, status, suffix, dest, other_dest) ==
    LET name == <<f.order_id, suffix>>
        path == <<local_temp_dir, name>>
    IN  /\ f.written = 1
        /\ DOMAIN scratch = DOMAIN AtEntry.scratch \cup {path}
        /\ \A p \in DOMAIN AtEntry.scratch \ {path} : scratch[p] = AtEntry.scratch[p]
        /\ Contains(scratch[path], <<"Order ID: ", f.order_id>>)
        /\ Contains(scratch[path], <<"Comment: ", f.comment>>)
        /\ Contains(scratch[path], <<"Status: ", status>>)
        /\ Contains(scratch[path], <<"Next Steps: Manual review required.">>)
               <=> status = "Unresolved"
        /\ f.uploaded = 1
        /\ Len(uploads) = AtEntry.n_uploads + 1
        /\ uploads[Len(uploads)].local_file_path = path
        /\ uploads[Len(uploads)].content = scratch[path]
        /\ uploads[Len(uploads)].gcs_file_path = <<dest, name>>
        /\ uploads[Len(uploads)].gcs_file_path[1] # other_dest

\* C5: a handle_resolution call with outcome Resolved (resp. Unresolved) that
\* returns has written exactly one scratch file, {order_id}_resolved.txt (resp.
\* _unresolved.txt) in the scratch directory, holding 'Order ID: {order_id}',
\* 'Comment: {comment}' and 'Status: {outcome}', with the manual-review note
\* exactly when Unresolved, and has made exactly one upload call, from that
\* path to the folder of its outcome and not to the other folder.
C5_OneFileOneUpload ==
    disp[1].pc = "returned" =>
        /\ disp[1].classification = Resolved =>
             Dispatched(disp[1], "Resolved", "_resolved.txt",
                        "processed/resolved", "processed/unresolved")
        /\ disp[1].classification = Unresolved =>
             Dispatched(disp[1], "Unresolved", "_unresolved.txt",
                        "processed/unresolved", "processed/resolved")

C5_Witness ==
    /\ Len(audit) = 2
    /\ disp[1].pc = "returned"
    /\ disp[1].classification = Unresolved
    /\ disp[1].order_id = "o2"
    /\ disp[1].comment = "c2"
    /\ <<"temp", <<"o2", "_resolved.txt">>>> \in DOMAIN scratch
    /\ <<"processed/unresolved", <<"o2", "_unresolved.txt">>>> \in DOMAIN store

\* C6: during and after a handle_resolution call whose outcome is neither
\* 'Resolved' nor 'Unresolved' (None included), no scratch file has been
\* written, no upload call made, no exception raised, and the scratch
\* directory and the bucket are as the call found them.
C6_InvalidOutcomeNoEffect ==
    (disp[1].pc # "idle" /\ disp[1].classification \notin {Resolved, Unresolved}) =>
        /\ disp[1].pc \in {"called", "returned"}
        /\ disp[1].written = 0
        /\ disp[1].uploaded = 0
        /\ scratch = AtEntry.scratch
        /\ store = AtEntry.store
        /\ Len(uploads) = AtEntry.n_uploads

C6_Witness ==
    /\ Len(audit) = 2
    /\ disp[1].pc = "returned"
    /\ disp[1].classification = None
    /\ disp[1].invalid_log
    /\ Len(uploads) = 1
    /\ DOMAIN store # {}

\* the scratch directory and the number of uploads when call k was over
ScratchAfter(k) == IF k < Len(audit) THEN audit[k + 1].scratch ELSE scratch
UploadsAfter(k) == IF k < Len(audit) THEN audit[k + 1].n_uploads ELSE Len(uploads)

\* call k had a label, wrote its file, made its upload and returned
Completed(k) ==
    /\ audit[k].classification \in {Resolved, Unresolved}
    /\ UploadsAfter(k) = audit[k].n_uploads + 1
    /\ k = Len(audit) => disp[1].pc = "returned"

UploadOf(k) == uploads[audit[k].n_uploads + 1]

\* C16: of two completed handle_resolution calls with the same order_id,
\* outcome and comment, the later one leaves the same content at the same
\* scratch path as the earlier one and uploads the same content from the same
\* scratch path to the same destination path.
C16_RerunSameArtifact ==
    \A a \in 1..Len(audit), b \in 1..Len(audit) :
        ( /\ a < b
          /\ audit[a].order_id = audit[b].order_id
          /\ audit[a].classification = audit[b].classification
          /\ audit[a].comment = audit[b].comment
          /\ Completed(a)
          /\ Completed(b) )
        => /\ UploadOf(a).local_file_path = UploadOf(b).local_file_path
           /\ UploadOf(a).gcs_file_path = UploadOf(b).gcs_file_path
           /\ UploadOf(a).content = UploadOf(b).content
           /\ UploadOf(b).local_file_path \in DOMAIN ScratchAfter(b)
           /\ ScratchAfter(a)[UploadOf(a).local_file_path]
                = ScratchAfter(b)[UploadOf(b).local_file_path]
           /\ ScratchAfter(b)[UploadOf(b).local_file_path] = UploadOf(b).content

C16_Witness ==
    /\ Len(audit) = 2
    /\ audit[1].order_id = "o1" /\ audit[2].order_id = "o1"
    /\ audit[1].classification = Unresolved /\ audit[2].classification = Unresolved
    /\ audit[1].comment = "c2" /\ audit[2].comment = "c2"
    /\ Completed(1)
    /\ Completed(2)
    /\ Len(uploads) = 2
    /\ uploads[1].content = uploads[2].content
    /\ ~uploads[1].result

\* C24: in a handle_resolution call the upload is attempted only once the
\* scratch file has been written and closed, holding the whole text; a call
\* whose open or write raised has made no upload call.
C24_WriteBeforeUpload ==
    /\ disp[1].pc = "upload" =>
         /\ disp[1].written = 1
         /\ disp[1].local_file_path \in DOMAIN scratch
         /\ scratch[disp[1].local_file_path] = disp[1].text
    /\ disp[1].uploaded > 0 =>
         /\ disp[1].written = 1
         /\ uploads[Len(uploads)].content = disp[1].text
    /\ disp[1].pc = "raised" =>
         /\ disp[1].written = 0
         /\ disp[1].uploaded = 0
         /\ Len(uploads) = AtEntry.n_uploads
         /\ store = AtEntry.store

C24_Witness ==
    /\ Len(audit) = 2
    /\ disp[1].pc = "raised"
    /\ disp[1].classification = Resolved
    /\ disp[1].local_file_path \in DOMAIN scratch
    /\ scratch[disp[1].local_file_path] = <<>>
    /\ Len(uploads) = 1
    /\ uploads[1].result

-----------------------------------------------------------------------------
(* Claims about an orchestrator run, checked under Spec *)

Records == 1..Len(comments_df.rows)

\* the run got past the early return and the set-up, so its loop ran
RunEnded == orch.pc = "returned" /\ orch.actions = "bound"

\* C7: in a run the classifier is invoked exactly once for every record, and
\* for each record the dispatcher is invoked and a row appended if and only if
\* its classification is not None; a record classified None leaves no row.
C7_OncePerRecord ==
    /\ \A i \in Records :
         /\ audit[i].classify_calls <= 1
         /\ audit[i].dispatch_calls <= 1
         /\ audit[i].classification = None =>
              audit[i].dispatch_calls = 0 /\ audit[i].rows = 0
    /\ RunEnded =>
         \A i \in Records :
           /\ audit[i].classify_calls = 1
           /\ audit[i].dispatch_calls = 1 <=> audit[i].classification # None
           /\ audit[i].rows = 1 <=> audit[i].classification # None

RECURSIVE ExpectedRows(_)
\* the first k records that were classified, each with the classifier's value
ExpectedRows(k) ==
    IF k = 0 THEN <<>>
    ELSE IF audit[k].classification = None
    THEN ExpectedRows(k - 1)
    ELSE Append(ExpectedRows(k - 1),
                [order_id |-> comments_df.rows[k].transaction_id,
                 comment |-> comments_df.rows[k].comments,
                 status |-> audit[k].classification])

\* C8: at every point of a run the accumulated rows are the records processed
\* so far whose classification is not None, in input order, each with the
\* status the classifier returned.
C8_RowsAreClassifiedPrefix ==
    orch.processed_data = ExpectedRows(orch.index)

C8_Witness ==
    /\ orch.index = 2
    /\ Len(orch.processed_data) = 2
    /\ orch.processed_data[1].order_id = "o2"
    /\ orch.processed_data[1].status = Unresolved
    /\ orch.processed_data[2].order_id = "o1"
    /\ orch.processed_data[2].status = Resolved

\* C9: when the dispatch of a record has raised, the run still classifies
\* every record and returns the table of the records that succeeded.
C9_FailureIsolated ==
    (orch.pc = "returned" /\ \E i \in Records : audit[i].raised) =>
        /\ \A j \in Records : audit[j].classify_calls = 1
        /\ ~orch.processed_data_df.none
        /\ orch.processed_data_df.rows = ExpectedRows(Len(comments_df.rows))

\* C10: a run whose loop went through every record and left no row with status
\* 'Resolved' (no row at all included) completes without error and returns the
\* result table with an empty pattern table.
C10_NoResolvedCompletes ==
    ( /\ RunEnded
      /\ orch.index = Len(comments_df.rows)
      /\ \A r \in 1..Len(orch.processed_data) : orch.processed_data[r].status # Resolved )
    => /\ orch.returned = "complete"
       /\ orch.processed_data_df = Frame(orch.processed_data)
       /\ orch.pattern_analysis_results = Frame(<<>>)

\* a fraction <<n, d>> is at most the fraction <<m, e>>
FractionLeq(a, b) == a[1] * b[2] <= b[1] * a[2]

\* C11: the fractions handed to the progress indicator during a run, those from
\* inside the dispatcher included, never decrease from one update to the next.
C11_ProgressNonDecreasing ==
    \A i \in 1..(Len(progress) - 1) : FractionLeq(progress[i], progress[i + 1])

\* C12: after a completed run in which every upload succeeded, the bucket holds
\* as many artifacts as the result table has rows.
C12_OneArtifactPerRow ==
    ( /\ orch.returned = "complete"
      /\ \A k \in 1..Len(uploads) : uploads[k].result )
    => Cardinality(DOMAIN store) = Len(orch.processed_data)

\* the upload of record i was reported as failed
UploadFailed(i) == audit[i].upload_results # <<>> /\ ~audit[i].upload_results[1]

\* C13: a dispatch with outcome Resolved or Unresolved that returns has made
\* exactly one upload call, whether the store reported success or failure; a
\* record whose upload was reported as failed still has its row, the run has
\* gone on to the record after it, and unless some dispatch raised the run
\* ends having classified every record.
C13_UploadFailureIgnored ==
    /\ (disp[1].pc = "returned" /\ disp[1].classification \in {Resolved, Unresolved})
           => disp[1].uploaded = 1
    /\ \A i \in Records :
         /\ (audit[i].rows = 1 /\ audit[i].classification \in {Resolved, Unresolved})
               => Len(audit[i].upload_results) = 1
         /\ UploadFailed(i) =>
               /\ audit[i].rows = 1
               /\ orch.index >= i
               /\ Len(orch.processed_data) >= 1
               /\ (orch.pc = "returned" /\ i < Len(comments_df.rows))
                     => audit[i + 1].classify_calls = 1
               /\ (orch.pc = "returned" /\ \A j \in Records : ~audit[j].raised)
                     => \A j \in Records : audit[j].classify_calls = 1

C13_Witness ==
    /\ orch.returned = "complete"
    /\ Len(comments_df.rows) = 2
    /\ audit[1].upload_results = <<FALSE>>
    /\ audit[1].rows = 1
    /\ audit[2].upload_results = <<TRUE>>
    /\ Len(orch.processed_data) = 2
    /\ Len(uploads) = 2

\* the construction of the classifier, the storage client or ResolutionActions
\* (which loads the embedding model) failed
SetupFailed == orch.actions = "unbound" /\ orch.returned = "error"

\* C19: when the set-up of a run has failed, no record has been classified or
\* dispatched and the run has ended by raising to its caller, not by returning.
C19_SetupFailurePropagates ==
    SetupFailed =>
        /\ \A i \in Records : audit[i].classify_calls = 0 /\ audit[i].dispatch_calls = 0
        /\ orch.pc = "raised"

ClassifierInFlight == cls.pc = "running"
DispatcherInFlight(w) == disp[w].pc \in {"called", "open", "write", "upload"}

\* C25: in a run at most one classifier or dispatcher call is in flight; while
\* record i is being classified every record before it is done with and no
\* later record has been touched; its dispatch is in flight only once its
\* classification has returned, and record i+1 is not classified before then.
C25_OneRecordAtATime ==
    /\ ~DispatcherInFlight(2)
    /\ ~(ClassifierInFlight /\ DispatcherInFlight(1))
    /\ \A i \in Records :
         /\ i > orch.index + 1 =>
               audit[i].classify_calls = 0 /\ audit[i].dispatch_calls = 0
         /\ i <= orch.index =>
               /\ audit[i].classify_calls = 1
               /\ audit[i].dispatch_calls = audit[i].rows
    /\ ClassifierInFlight =>
         /\ orch.pc = "classifying"
         /\ audit[orch.index + 1].classify_calls = 1
         /\ audit[orch.index + 1].dispatch_calls = 0
    /\ DispatcherInFlight(1) =>
         /\ orch.pc = "dispatching"
         /\ cls.pc = "idle"
         /\ audit[orch.index + 1].classify_calls = 1
         /\ audit[orch.index + 1].classification = disp[1].classification
         /\ disp[1].order_id = comments_df.rows[orch.index + 1].transaction_id

C25_Witness ==
    /\ Len(comments_df.rows) = 2
    /\ orch.index = 1
    /\ disp[1].pc = "upload"
    /\ audit[1].rows = 1
    /\ audit[2].classification = Unresolved
    /\ Len(uploads) = 1

\* the scratch files whose name the purge pattern takes
Artifacts(fs) == {p \in DOMAIN fs : p[2][2] \in {"_resolved.txt", "_unresolved.txt"}}

\* C26: until a run has completed, every scratch artifact written is still in
\* place (at its upload and afterwards); the purge has run only when the loop
\* went through every record and pattern identification returned; after a
\* completed run no artifact is left and the other files are as they were.
C26_PurgeLast ==
    /\ disp[1].pc = "upload" => disp[1].local_file_path \in DOMAIN scratch
    /\ orch.returned # "complete" =>
         /\ \A k \in 1..Len(uploads) : uploads[k].local_file_path \in DOMAIN scratch
         /\ \A p \in DOMAIN InitialScratch : p \in DOMAIN scratch
    /\ orch.returned = "complete" =>
         /\ Artifacts(scratch) = {}
         /\ scratch = InitialScratch
         /\ orch.index = Len(comments_df.rows)
         /\ ~orch.patterns.raised
         /\ disp[1].pc = "idle"

C26_Witness ==
    /\ orch.returned = "complete"
    /\ Len(uploads) = 2
    /\ uploads[1].local_file_path # uploads[2].local_file_path
    /\ uploads[1].gcs_file_path[1] = "processed/unresolved"
    /\ scratch = InitialScratch

\* C27: in a run the dispatcher is only ever called with 'Resolved' or
\* 'Unresolved', and its invalid-outcome branch is never taken.
C27_DispatchedLabelsOnly ==
    disp[1].pc # "idle" =>
        /\ disp[1].classification \in {Resolved, Unresolved}
        /\ ~disp[1].invalid_log

\* the step after the loop (the filter on 'status' and identify_patterns) failed
PatternStepFailed ==
    /\ RunEnded
    /\ orch.index = Len(comments_df.rows)
    /\ orch.returned = "error" \/ orch.patterns.raised

\* C28: when the step after the loop has failed, the run has returned neither
\* table, the purge has not run (every artifact written is still in the
\* scratch directory), and each dispatched record had its upload made.
C28_PatternFailureLosesTables ==
    PatternStepFailed =>
        /\ orch.processed_data_df.none
        /\ orch.pattern_analysis_results.none
        /\ \A k \in 1..Len(uploads) :
             /\ uploads[k].local_file_path \in DOMAIN scratch
             /\ uploads[k].result => uploads[k].gcs_file_path \in DOMAIN store
        /\ \A i \in Records :
             audit[i].classification \in {Resolved, Unresolved}
                 => Len(audit[i].upload_results) = 1

C28_Witness ==
    /\ PatternStepFailed
    /\ orch.patterns.raised
    /\ num_clusters = 2
    /\ Len(orch.processed_data) = 2
    /\ orch.processed_data[1].status = Resolved
    /\ orch.processed_data[2].status = Unresolved
    /\ Cardinality(DOMAIN store) = 2
    /\ Cardinality(Artifacts(scratch)) = 2

-----------------------------------------------------------------------------
(* Claims about identify_patterns, checked under SpecPatterns *)

\* the positions of the rows whose comment is present
PresentAt(rows) == {i \in 1..Len(rows) : rows[i].comment # "NaN"}

\* how many present rows there are up to position i
RankOf(rows, i) == Cardinality({j \in PresentAt(rows) : j <= i})

\* C14: a call of identify_patterns that returns rows returns exactly the input
\* rows whose comment is present, in their input order, order_id, comment and
\* status as they were, each with a cluster in 0..n_clusters-1; there are as
\* many rows as present comments and no row with a missing comment.
C14_PresentRowsClustered ==
    orch.pc = "patterns_returned" =>
        LET given == orch.processed_data
            out == orch.patterns.rows
        IN  /\ Len(out) = Cardinality(PresentAt(given))
            /\ \A i \in PresentAt(given) :
                 /\ out[RankOf(given, i)].order_id = given[i].order_id
                 /\ out[RankOf(given, i)].comment = given[i].comment
                 /\ out[RankOf(given, i)].status = given[i].status
            /\ \A k \in 1..Len(out) :
                 /\ out[k].comment # "NaN"
                 /\ out[k].cluster \in 0..(num_clusters - 1)
                 /\ DOMAIN out[k] = {"order_id", "comment", "status", "cluster"}

C14_Witness ==
    /\ orch.pc = "patterns_returned"
    /\ num_clusters = 2
    /\ Len(orch.processed_data) = 3
    /\ orch.processed_data[1].comment = "c2"
    /\ orch.processed_data[2].comment = "NaN"
    /\ orch.processed_data[3].comment = "c1"
    /\ orch.processed_data[1].order_id = "o2"
    /\ orch.processed_data[3].order_id = "o1"
    /\ Len(orch.patterns.rows) = 2
    /\ orch.patterns.rows[1].cluster = 1
    /\ orch.patterns.rows[2].cluster = 0

\* C15: a call of identify_patterns on an empty table, or on a table whose
\* every comment is missing, returns an empty table, and neither the embedding
\* model nor the clustering has been invoked.
C15_EmptyInNothingCalled ==
    (orch.pc \in {"patterns_returned", "patterns_raised"}
        /\ PresentAt(orch.processed_data) = {}) =>
        /\ orch.pc = "patterns_returned"
        /\ orch.patterns.rows = <<>>
        /\ orch.patterns.encode_calls = 0
        /\ orch.patterns.fit_calls = 0

C15_Witness ==
    /\ orch.pc = "patterns_returned"
    /\ Len(orch.processed_data) = 2
    /\ PresentAt(orch.processed_data) = {}
    /\ orch.patterns.rows = <<>>
    /\ orch.patterns.encode_calls = 0

-----------------------------------------------------------------------------
(* Claims about CloudStorage.upload_file, checked under SpecUpload *)

\* C17: no upload_file call lets an exception out; a call returns True exactly
\* when the blob upload went through, and then the blob holds the file; a call
\* with a missing local file, or one whose storage client raised, returns False
\* and leaves the bucket as it was.
C17_UploadNeverRaises ==
    \A k \in 1..Len(uploads) :
        LET e == uploads[k]
            after == IF k < Len(uploads) THEN audit[k + 1].store ELSE store
        IN  /\ e.raised = "none"
            /\ e.result <=> e.exc = "none"
            /\ e.local_file_path \notin DOMAIN scratch => ~e.result
            /\ e.result => /\ e.gcs_file_path \in DOMAIN after
                            /\ after[e.gcs_file_path] = scratch[e.local_file_path]
            /\ ~e.result => after = audit[k].store

C17_Witness ==
    /\ Len(uploads) = 2
    /\ uploads[1].exc = "FileNotFoundError"
    /\ ~uploads[1].result
    /\ uploads[2].exc = "ConnectionError"
    /\ ~uploads[2].result
    /\ uploads[2].raised = "none"
    /\ store = EmptyDir

-----------------------------------------------------------------------------
(* Claims about concurrent handle_resolution calls, checked under
   SpecConcurrent *)

\* C18: whenever one of two concurrent handle_resolution calls is at its
\* upload, the scratch file it is about to transmit holds the artifact of its
\* own record.
C18_UploadsOwnArtifact ==
    \A w \in Workers :
        disp[w].pc = "upload" =>
            /\ disp[w].local_file_path \in DOMAIN scratch
            /\ scratch[disp[w].local_file_path] = disp[w].text

-----------------------------------------------------------------------------
(* Claims about the ingestors, checked under SpecIngest *)

\* C20: every ingest_data or fetch_data call whose file type is neither 'csv'
\* nor 'excel' has raised ValueError to its caller.
C20_UnsupportedTypeRaises ==
    \A k \in 1..Len(ingest.log) :
        LowerStr(ingest.log[k].file_type) \notin {<<"c", "s", "v">>, <<"e", "x", "c", "e", "l">>}
            => ingest.log[k].raised = "ValueError"

\* C30: every fetch_data call that found no open session when it started has
\* called connect() first, and no call has worked on a session that was not
\* open, a call made after an earlier call closed the session included.
C30_FetchOnOpenConnection ==
    \A a \in 1..Len(audit) :
        LET e == ingest.log[audit[a].at]
        IN  /\ audit[a].sftp # "open" => e.connected
            /\ e.session \in {"open", "None"}
            /\ e.session = "None" => e.exc = "SSHException"

====
